---- MODULE Spec2Model ----
(***************************************************************************)
(* Model of nap.ino: 8-bit PCM playback on an ATmega2560.  Timer 1 raises  *)
(* the per-sample compare interrupt, Timer 2 generates the PWM carrier on  *)
(* OC2A (Arduino pin 10).  The mainline (setup, loop) and the interrupt    *)
(* handler ISR(TIMER1_COMPA_vect) are two contexts; every C statement is   *)
(* one step.  The handler runs with the global interrupt flag cleared, so  *)
(* the mainline does not move while a handler is active.                   *)
(***************************************************************************)
EXTENDS Integers, Sequences, FiniteSets, TLC

\* ---------------------------------------------------------------- bounds
MaxLen == 2
MaxStops == 2
MaxTicks == 300
MaxFile == 9

\* ------------------------------------------------- register bit positions
CS10 == 0
CS11 == 1
CS12 == 2
WGM10 == 0
WGM11 == 1
WGM12 == 3
WGM13 == 4
WGM20 == 0
WGM21 == 1
WGM22 == 3
COM2B0 == 4
COM2B1 == 5
COM2A0 == 6
COM2A1 == 7
AS2 == 5
EXCLK == 6
OCIE1A == 1

\* findData: the bytes 'd', 'a', 't' it matches, a byte 'x' standing for every
\* other value, and the matcher state it stops at
Ch_d == 100
Ch_a == 97
Ch_t == 116
Ch_x == 120
FoundState == 8

COMON1 == COM2A1
COMON0 == COM2A0
COMOFF1 == COM2B1
COMOFF0 == COM2B0

SAMPLE_RATE == 8000
F_CPU == 16000000

\* _BV(b): a register is the set of its bits that are 1
BV(b) == {b}

\* byte / unsigned char
ByteWidth == 256
Byte == 0 .. (ByteWidth - 1)

\* sample values the audio data is drawn from
SampleVals == {0, 10, 200, 255}

RECURSIVE SeqsUpTo(_)
SeqsUpTo(n) ==
    IF n = 0 THEN {<<>>}
    ELSE LET S == SeqsUpTo(n - 1)
         IN  S \cup {Append(s, v) : s \in {t \in S : Len(t) = n - 1}, v \in SampleVals}

\* the audio bytes left in myFile after setup's SD.open and findData: empty
\* when the file failed to open or holds no data
Streams == SeqsUpTo(MaxLen)

VARIABLES
    stream,      \* bytes myFile still had to deliver when startPlayback ran
    fd,          \* findData: the file it scans, its cursor and its locals
    pos,         \* myFile's read cursor into stream
    playing,     \* boolean playing
    lastSample,  \* byte lastSample
    dataCount,   \* int dataCount
    once,        \* boolean once
    OCR,         \* _OCR_ (OCR2A): the PWM duty register
    OCR1A,       \* Timer 1 compare value
    ASSR, TCCR1A, TCCR1B, TCCR2A, TCCR2B, TIMSK1,   \* registers, as bit sets
    portBit,     \* PORT bit of speakerPin (TRUE = HIGH)
    ddrOut,      \* speakerPin is an output
    I,           \* global interrupt enable flag (SREG.I)
    pc,          \* position of each context: pc.main, pc.isr
    ticks,       \* history: handler invocations so far
    playTicks,   \* history: invocations that took the `playing` branch
    fadeTicks,   \* history: invocations that took the fade-out branch
    exhaustedAt, \* history: the tick at which nextByte found the source empty
    stopCalls,   \* history: entries into stopPlayback
    stopDone,    \* history: completed runs of stopPlayback
    extStops,    \* history: stopPlayback calls made by the mainline
    extStopPlaying, \* history: the mainline called stopPlayback while playing
    log          \* lifecycle messages printed by loop

hw == <<OCR, OCR1A, ASSR, TCCR1A, TCCR1B, TCCR2A, TCCR2B, TIMSK1, portBit, ddrOut>>
prog == <<pos, playing, lastSample, dataCount, once>>
hist == <<ticks, playTicks, fadeTicks, exhaustedAt, stopCalls, stopDone,
          extStops, extStopPlaying, log>>
vars == <<stream, fd, pos, playing, lastSample, dataCount, once, OCR, OCR1A, ASSR,
          TCCR1A, TCCR1B, TCCR2A, TCCR2B, TIMSK1, portBit, ddrOut, I, pc,
          ticks, playTicks, fadeTicks, exhaustedAt, stopCalls, stopDone,
          extStops, extStopPlaying, log>>

Goto(ctx, l) == pc' = [pc EXCEPT ![ctx] = l]

\* the mainline executes only while no handler is active
Runs(ctx) == ctx = "isr" \/ pc["isr"] = "idle"

\* ------------------------------------------------------- derived hardware
ClockSelect == {CS10, CS11, CS12}
Timer1Running == TCCR1B \cap ClockSelect # {}
Timer2Running == TCCR2B \cap ClockSelect # {}
SampleIrqEnabled == OCIE1A \in TIMSK1
\* the pin is not driven high: PORT bit clear and OC2A detached
PinLow == ~portBit /\ COMON1 \notin TCCR2A

\* ---------------------------------------------------------------- findData
\* the state of a findData call on an open (or unopened) file f, at entry
FindEntry(f, isOpen) ==
    [file |-> f, opened |-> isOpen, fpos |-> 0, count |-> 0, state |-> 0,
     pc |-> "f104", reported |-> FALSE]

\* findData has returned: the playback specifications start from here
FindReturned == [FindEntry(<<>>, TRUE) EXCEPT !.pc = "ret"]

\* ------------------------------------------------------------------ Init
\* the state at reset, for a file whose audio data is one of streams S
InitWith(S) ==
    /\ stream \in S
    /\ pos = 0
    /\ playing = FALSE
    /\ lastSample = 0
    /\ dataCount = 0
    /\ once = FALSE
    /\ OCR = 0 /\ OCR1A = 0
    /\ ASSR = {} /\ TCCR1A = {} /\ TCCR1B = {} /\ TCCR2A = {} /\ TCCR2B = {}
    /\ TIMSK1 = {}
    /\ portBit = FALSE /\ ddrOut = FALSE
    /\ I = TRUE
    /\ pc = [main |-> "setup", isr |-> "idle"]
    /\ ticks = 0 /\ playTicks = 0 /\ fadeTicks = 0 /\ exhaustedAt = 0
    /\ stopCalls = 0 /\ stopDone = 0 /\ extStops = 0 /\ extStopPlaying = FALSE
    /\ log = <<>>

Init == InitWith(Streams) /\ fd = FindReturned

\* audio data of at most one sample, the sample being any byte
ByteStreams == {<<>>} \cup {<<v>> : v \in Byte}

InitBytes == InitWith(ByteStreams) /\ fd = FindReturned

\* ------------------------------------------------------------ nextByte
\* where `_OCR_ = nextByte()` continues in each context
RetNext(ctx) == IF ctx = "main" THEN "s155" ELSE "reti"

\* line 90: if (myFile.available())
NextByte90(ctx) ==
    /\ pc[ctx] = "n90" /\ Runs(ctx)
    /\ Goto(ctx, IF pos < Len(stream) THEN "n91" ELSE "n95")
    /\ UNCHANGED <<stream, fd, prog, hw, I, hist>>

NextByte91Rereads(ctx) ==
    /\ pc[ctx] = "n91" /\ Runs(ctx)
    /\ lastSample' = stream[pos + 1] % ByteWidth
    /\ Goto(ctx, "n92")
    /\ UNCHANGED <<stream, fd, pos, playing, dataCount, once, hw, I, hist>>

\* line 91: lastSample = myFile.read();
NextByte91(ctx) ==
    /\ pc[ctx] = "n91" /\ Runs(ctx)
    /\ lastSample' = stream[pos + 1] % ByteWidth
    /\ pos' = pos + 1
    /\ Goto(ctx, "n92")
    /\ UNCHANGED <<stream, fd, playing, dataCount, once, hw, I, hist>>

\* line 92: dataCount++;
NextByte92(ctx) ==
    /\ pc[ctx] = "n92" /\ Runs(ctx)
    /\ dataCount' = dataCount + 1
    /\ Goto(ctx, "n93")
    /\ UNCHANGED <<stream, fd, pos, playing, lastSample, once, hw, I, hist>>

\* line 93: return lastSample;  the caller stores it in _OCR_
NextByte93(ctx) ==
    /\ pc[ctx] = "n93" /\ Runs(ctx)
    /\ OCR' = lastSample
    /\ Goto(ctx, RetNext(ctx))
    /\ UNCHANGED <<stream, fd, prog, OCR1A, ASSR, TCCR1A, TCCR1B, TCCR2A, TCCR2B,
                   TIMSK1, portBit, ddrOut, I, hist>>

NextByte95KeepsPlaying(ctx) ==
    /\ pc[ctx] = "n95" /\ Runs(ctx)
    /\ exhaustedAt' = IF ctx = "isr" THEN ticks ELSE exhaustedAt
    /\ Goto(ctx, "n97")
    /\ UNCHANGED <<stream, fd, prog, hw, I, ticks, playTicks, fadeTicks,
                   stopCalls, stopDone, extStops, extStopPlaying, log>>

\* line 95: playing = false;
NextByte95(ctx) ==
    /\ pc[ctx] = "n95" /\ Runs(ctx)
    /\ playing' = FALSE
    /\ exhaustedAt' = IF ctx = "isr" THEN ticks ELSE exhaustedAt
    /\ Goto(ctx, "n97")
    /\ UNCHANGED <<stream, fd, pos, lastSample, dataCount, once, hw, I,
                   ticks, playTicks, fadeTicks, stopCalls, stopDone, extStops,
                   extStopPlaying, log>>

\* line 97: control reaches the end of a function returning unsigned char
\* without a return statement; the value the caller stores in _OCR_ is
\* indeterminate
NextByte97(ctx) ==
    /\ pc[ctx] = "n97" /\ Runs(ctx)
    /\ \E g \in Byte : OCR' = g
    /\ Goto(ctx, RetNext(ctx))
    /\ UNCHANGED <<stream, fd, prog, OCR1A, ASSR, TCCR1A, TCCR1B, TCCR2A, TCCR2B,
                   TIMSK1, portBit, ddrOut, I, hist>>

nextByte(ctx) ==
    \/ NextByte90(ctx) \/ NextByte91(ctx) \/ NextByte92(ctx)
    \/ NextByte93(ctx) \/ NextByte95(ctx) \/ NextByte97(ctx)

\* -------------------------------------------------------- stopPlayback
RetStop(ctx) == IF ctx = "main" THEN "l207" ELSE "reti"

\* line 125: TIMSK1 &= ~_BV(OCIE1A);
Stop125(ctx) ==
    /\ pc[ctx] = "x125" /\ Runs(ctx)
    /\ TIMSK1' = TIMSK1 \ BV(OCIE1A)
    /\ Goto(ctx, "x126")
    /\ UNCHANGED <<stream, fd, prog, OCR, OCR1A, ASSR, TCCR1A, TCCR1B, TCCR2A,
                   TCCR2B, portBit, ddrOut, I, hist>>

Stop126Toggles(ctx) ==
    /\ pc[ctx] = "x126" /\ Runs(ctx)
    /\ TCCR1B' = (TCCR1B \ BV(CS10)) \cup (BV(CS10) \ TCCR1B)
    /\ Goto(ctx, "x127")
    /\ UNCHANGED <<stream, fd, prog, OCR, OCR1A, ASSR, TCCR1A, TCCR2A, TCCR2B,
                   TIMSK1, portBit, ddrOut, I, hist>>

\* line 126: TCCR1B &= ~_BV(CS10);
Stop126(ctx) ==
    /\ pc[ctx] = "x126" /\ Runs(ctx)
    /\ TCCR1B' = TCCR1B \ BV(CS10)
    /\ Goto(ctx, "x127")
    /\ UNCHANGED <<stream, fd, prog, OCR, OCR1A, ASSR, TCCR1A, TCCR2A, TCCR2B,
                   TIMSK1, portBit, ddrOut, I, hist>>

\* line 127: TCCR2B &= ~_BV(CS10);
Stop127(ctx) ==
    /\ pc[ctx] = "x127" /\ Runs(ctx)
    /\ TCCR2B' = TCCR2B \ BV(CS10)
    /\ Goto(ctx, "x128")
    /\ UNCHANGED <<stream, fd, prog, OCR, OCR1A, ASSR, TCCR1A, TCCR1B, TCCR2A,
                   TIMSK1, portBit, ddrOut, I, hist>>

Stop128ZeroesDuty(ctx) ==
    /\ pc[ctx] = "x128" /\ Runs(ctx)
    /\ TCCR2A' = TCCR2A \ BV(COMON1)
    /\ portBit' = FALSE
    /\ OCR' = 0
    /\ stopDone' = stopDone + 1
    /\ Goto(ctx, RetStop(ctx))
    /\ UNCHANGED <<stream, fd, prog, OCR1A, ASSR, TCCR1A, TCCR1B, TCCR2B,
                   TIMSK1, ddrOut, I, ticks, playTicks, fadeTicks,
                   exhaustedAt, stopCalls, extStops, extStopPlaying, log>>

Stop128ClearsPlaying(ctx) ==
    /\ pc[ctx] = "x128" /\ Runs(ctx)
    /\ TCCR2A' = TCCR2A \ BV(COMON1)
    /\ portBit' = FALSE
    /\ playing' = FALSE
    /\ stopDone' = stopDone + 1
    /\ Goto(ctx, RetStop(ctx))
    /\ UNCHANGED <<stream, fd, pos, lastSample, dataCount, once, OCR, OCR1A, ASSR,
                   TCCR1A, TCCR1B, TCCR2B, TIMSK1, ddrOut, I, ticks, playTicks,
                   fadeTicks, exhaustedAt, stopCalls, extStops, extStopPlaying,
                   log>>

\* line 128: digitalWrite(speakerPin, LOW); detaches the pin from the
\* Timer 2 waveform generator and clears its PORT bit; stopPlayback returns
Stop128(ctx) ==
    /\ pc[ctx] = "x128" /\ Runs(ctx)
    /\ TCCR2A' = TCCR2A \ BV(COMON1)
    /\ portBit' = FALSE
    /\ stopDone' = stopDone + 1
    /\ Goto(ctx, RetStop(ctx))
    /\ UNCHANGED <<stream, fd, prog, OCR, OCR1A, ASSR, TCCR1A, TCCR1B, TCCR2B,
                   TIMSK1, ddrOut, I, ticks, playTicks, fadeTicks,
                   exhaustedAt, stopCalls, extStops, extStopPlaying, log>>

stopPlayback(ctx) ==
    \/ Stop125(ctx) \/ Stop126(ctx) \/ Stop127(ctx) \/ Stop128(ctx)

\* ------------------------------------------------------------- setup
\* lines 184-197: once = true; dataCount = 0; pinMode(10, OUTPUT); the file
\* is opened and findData has left the cursor at the audio data
Setup ==
    /\ pc["main"] = "setup" /\ Runs("main")
    /\ once' = TRUE
    /\ dataCount' = 0
    /\ ddrOut' = TRUE
    /\ Goto("main", "s143")
    /\ UNCHANGED <<stream, fd, pos, playing, lastSample, OCR, OCR1A, ASSR, TCCR1A,
                   TCCR1B, TCCR2A, TCCR2B, TIMSK1, portBit, I, hist>>

\* ------------------------------------------------------- startPlayback
\* a mainline statement that moves from one label to the next
MainStep(from, to) ==
    /\ pc["main"] = from /\ Runs("main")
    /\ Goto("main", to)
    /\ UNCHANGED <<stream, fd, prog, hist>>

\* line 143: pinMode(speakerPin, OUTPUT);
Start143 ==
    /\ MainStep("s143", "s145")
    /\ ddrOut' = TRUE
    /\ UNCHANGED <<OCR, OCR1A, ASSR, TCCR1A, TCCR1B, TCCR2A, TCCR2B, TIMSK1,
                   portBit, I>>

\* line 145: ASSR &= ~(_BV(EXCLK) | _BV(AS2));
Start145 ==
    /\ MainStep("s145", "s146")
    /\ ASSR' = ASSR \ (BV(EXCLK) \cup BV(AS2))
    /\ UNCHANGED <<OCR, OCR1A, TCCR1A, TCCR1B, TCCR2A, TCCR2B, TIMSK1,
                   portBit, ddrOut, I>>

\* line 146: TCCR2A |= _BV(WGM21) | _BV(WGM20);
Start146 ==
    /\ MainStep("s146", "s147")
    /\ TCCR2A' = TCCR2A \cup BV(WGM21) \cup BV(WGM20)
    /\ UNCHANGED <<OCR, OCR1A, ASSR, TCCR1A, TCCR1B, TCCR2B, TIMSK1,
                   portBit, ddrOut, I>>

\* line 147: TCCR2B &= ~_BV(WGM22);
Start147 ==
    /\ MainStep("s147", "s150")
    /\ TCCR2B' = TCCR2B \ BV(WGM22)
    /\ UNCHANGED <<OCR, OCR1A, ASSR, TCCR1A, TCCR1B, TCCR2A, TIMSK1,
                   portBit, ddrOut, I>>

\* line 150: TCCR2A = (TCCR2A | _BV(COMON1)) & ~_BV(COMON0);
Start150 ==
    /\ MainStep("s150", "s151")
    /\ TCCR2A' = (TCCR2A \cup BV(COMON1)) \ BV(COMON0)
    /\ UNCHANGED <<OCR, OCR1A, ASSR, TCCR1A, TCCR1B, TCCR2B, TIMSK1,
                   portBit, ddrOut, I>>

\* line 151: TCCR2A &= ~(_BV(COMOFF1) | _BV(COMOFF0));
Start151 ==
    /\ MainStep("s151", "s152")
    /\ TCCR2A' = TCCR2A \ (BV(COMOFF1) \cup BV(COMOFF0))
    /\ UNCHANGED <<OCR, OCR1A, ASSR, TCCR1A, TCCR1B, TCCR2B, TIMSK1,
                   portBit, ddrOut, I>>

\* line 152: TCCR2B = (TCCR2B & ~(_BV(CS12) | _BV(CS11))) | _BV(CS10);
Start152 ==
    /\ MainStep("s152", "s153")
    /\ TCCR2B' = (TCCR2B \ (BV(CS12) \cup BV(CS11))) \cup BV(CS10)
    /\ UNCHANGED <<OCR, OCR1A, ASSR, TCCR1A, TCCR1B, TCCR2A, TIMSK1,
                   portBit, ddrOut, I>>

Start153NoFetch ==
    /\ MainStep("s153", "s155")
    /\ UNCHANGED <<hw, I>>

\* line 153: _OCR_ = nextByte();   (the call; nextByte's return stores)
Start153 ==
    /\ MainStep("s153", "n90")
    /\ UNCHANGED <<hw, I>>

Start155NoCli ==
    /\ MainStep("s155", "s159")
    /\ UNCHANGED <<hw, I>>

\* line 155: cli();
Start155 ==
    /\ MainStep("s155", "s159")
    /\ I' = FALSE
    /\ UNCHANGED hw

\* line 159: TCCR1B = (TCCR1B & ~_BV(WGM13)) | _BV(WGM12);
Start159 ==
    /\ MainStep("s159", "s160")
    /\ TCCR1B' = (TCCR1B \ BV(WGM13)) \cup BV(WGM12)
    /\ UNCHANGED <<OCR, OCR1A, ASSR, TCCR1A, TCCR2A, TCCR2B, TIMSK1,
                   portBit, ddrOut, I>>

\* line 160: TCCR1A = TCCR1A & ~(_BV(WGM11) | _BV(WGM10));
Start160 ==
    /\ MainStep("s160", "s163")
    /\ TCCR1A' = TCCR1A \ (BV(WGM11) \cup BV(WGM10))
    /\ UNCHANGED <<OCR, OCR1A, ASSR, TCCR1B, TCCR2A, TCCR2B, TIMSK1,
                   portBit, ddrOut, I>>

Start163NoClock ==
    /\ MainStep("s163", "s168")
    /\ TCCR1B' = TCCR1B \ (BV(CS12) \cup BV(CS11))
    /\ UNCHANGED <<OCR, OCR1A, ASSR, TCCR1A, TCCR2A, TCCR2B, TIMSK1,
                   portBit, ddrOut, I>>

\* line 163: TCCR1B = (TCCR1B & ~(_BV(CS12) | _BV(CS11))) | _BV(CS10);
Start163 ==
    /\ MainStep("s163", "s168")
    /\ TCCR1B' = (TCCR1B \ (BV(CS12) \cup BV(CS11))) \cup BV(CS10)
    /\ UNCHANGED <<OCR, OCR1A, ASSR, TCCR1A, TCCR2A, TCCR2B, TIMSK1,
                   portBit, ddrOut, I>>

\* line 168: OCR1A = F_CPU / SAMPLE_RATE;
Start168 ==
    /\ MainStep("s168", "s171")
    /\ OCR1A' = F_CPU \div SAMPLE_RATE
    /\ UNCHANGED <<OCR, ASSR, TCCR1A, TCCR1B, TCCR2A, TCCR2B, TIMSK1,
                   portBit, ddrOut, I>>

\* line 171: TIMSK1 |= _BV(OCIE1A);
Start171 ==
    /\ MainStep("s171", "s172")
    /\ TIMSK1' = TIMSK1 \cup BV(OCIE1A)
    /\ UNCHANGED <<OCR, OCR1A, ASSR, TCCR1A, TCCR1B, TCCR2A, TCCR2B,
                   portBit, ddrOut, I>>

Start172Skipped ==
    /\ pc["main"] = "s172" /\ Runs("main")
    /\ Goto("main", "s173")
    /\ UNCHANGED <<stream, fd, prog, hw, I, hist>>

\* line 172: playing = true;
Start172 ==
    /\ pc["main"] = "s172" /\ Runs("main")
    /\ playing' = TRUE
    /\ Goto("main", "s173")
    /\ UNCHANGED <<stream, fd, pos, lastSample, dataCount, once, hw, I, hist>>

\* line 173: sei();  startPlayback and setup return, loop is entered
Start173 ==
    /\ MainStep("s173", "l203")
    /\ I' = TRUE
    /\ UNCHANGED hw

startPlayback ==
    \/ Start143 \/ Start145 \/ Start146 \/ Start147 \/ Start150 \/ Start151
    \/ Start152 \/ Start153 \/ Start155 \/ Start159 \/ Start160 \/ Start163
    \/ Start168 \/ Start171 \/ Start172 \/ Start173

\* ------------------------------------------------- Timer 1 and the ISR
\* Timer 1 counts while a clock is selected; on a compare match, with the
\* compare interrupt enabled and I set, the hardware vectors to
\* ISR(TIMER1_COMPA_vect) and clears I
IsrEnter ==
    /\ pc["isr"] = "idle"
    /\ Timer1Running /\ SampleIrqEnabled /\ I
    /\ ticks < MaxTicks
    /\ I' = FALSE
    /\ ticks' = ticks + 1
    /\ Goto("isr", "i133")
    /\ UNCHANGED <<stream, fd, prog, hw, playTicks, fadeTicks, exhaustedAt,
                   stopCalls, stopDone, extStops, extStopPlaying, log>>

\* line 133: if (playing)
Isr133 ==
    /\ pc["isr"] = "i133"
    /\ Goto("isr", IF playing THEN "i134" ELSE "i135")
    /\ UNCHANGED <<stream, fd, prog, hw, I, hist>>

\* line 134: _OCR_ = nextByte();   (the call)
Isr134 ==
    /\ pc["isr"] = "i134"
    /\ playTicks' = playTicks + 1
    /\ Goto("isr", "n90")
    /\ UNCHANGED <<stream, fd, prog, hw, I, ticks, fadeTicks, exhaustedAt,
                   stopCalls, stopDone, extStops, extStopPlaying, log>>

FadeTestNoFloor(ls) == ls >= 0

\* line 135: else if (lastSample > 0)
FadeTest(ls) == ls > 0

Isr135 ==
    /\ pc["isr"] = "i135"
    /\ Goto("isr", IF FadeTest(lastSample) THEN "i136" ELSE "i138")
    /\ UNCHANGED <<stream, fd, prog, hw, I, hist>>

\* line 136: _OCR_ = lastSample--;   the value before the decrement is stored
Isr136 ==
    /\ pc["isr"] = "i136"
    /\ OCR' = lastSample
    /\ lastSample' = (lastSample - 1) % ByteWidth
    /\ fadeTicks' = fadeTicks + 1
    /\ Goto("isr", "reti")
    /\ UNCHANGED <<stream, fd, pos, playing, dataCount, once, OCR1A, ASSR, TCCR1A,
                   TCCR1B, TCCR2A, TCCR2B, TIMSK1, portBit, ddrOut, I,
                   ticks, playTicks, exhaustedAt, stopCalls, stopDone, extStops,
                   extStopPlaying, log>>

Isr138Returns ==
    /\ pc["isr"] = "i138"
    /\ stopCalls' = stopCalls + 1
    /\ Goto("isr", "reti")
    /\ UNCHANGED <<stream, fd, prog, hw, I, ticks, playTicks, fadeTicks,
                   exhaustedAt, stopDone, extStops, extStopPlaying, log>>

\* line 138: stopPlayback();   (the call)
Isr138 ==
    /\ pc["isr"] = "i138"
    /\ stopCalls' = stopCalls + 1
    /\ Goto("isr", "x125")
    /\ UNCHANGED <<stream, fd, prog, hw, I, ticks, playTicks, fadeTicks,
                   exhaustedAt, stopDone, extStops, extStopPlaying, log>>

\* line 139: the handler returns (reti sets I)
IsrReturn ==
    /\ pc["isr"] = "reti"
    /\ I' = TRUE
    /\ Goto("isr", "idle")
    /\ UNCHANGED <<stream, fd, prog, hw, hist>>

ISR == IsrEnter \/ Isr133 \/ Isr134 \/ Isr135 \/ Isr136 \/ Isr138 \/ IsrReturn

\* ---------------------------------------------------------------- loop
\* line 203: if (once)
Loop203 ==
    /\ pc["main"] = "l203" /\ once
    /\ MainStep("l203", "l204")
    /\ UNCHANGED <<hw, I>>

\* lines 204-206: "Starting audio at ... ms"
Loop204 ==
    /\ pc["main"] = "l204" /\ Runs("main")
    /\ log' = Append(log, "started")
    /\ Goto("main", "l207")
    /\ UNCHANGED <<stream, fd, prog, hw, I, ticks, playTicks, fadeTicks,
                   exhaustedAt, stopCalls, stopDone, extStops, extStopPlaying>>

Loop207NoWait ==
    /\ MainStep("l207", "l209")
    /\ UNCHANGED <<hw, I>>

\* line 207: while (playing)
Loop207 ==
    /\ MainStep("l207", IF playing THEN "l208" ELSE "l209")
    /\ UNCHANGED <<hw, I>>

\* line 208: delay(100);
Loop208 ==
    /\ MainStep("l208", "l207")
    /\ UNCHANGED <<hw, I>>

\* lines 209-211: "finished audio at ... ms"
Loop209 ==
    /\ pc["main"] = "l209" /\ Runs("main")
    /\ log' = Append(log, "finished")
    /\ Goto("main", "l212")
    /\ UNCHANGED <<stream, fd, prog, hw, I, ticks, playTicks, fadeTicks,
                   exhaustedAt, stopCalls, stopDone, extStops, extStopPlaying>>

\* line 212: once = false;  every later loop() finds once false and returns
Loop212 ==
    /\ pc["main"] = "l212" /\ Runs("main")
    /\ once' = FALSE
    /\ Goto("main", "l203")
    /\ UNCHANGED <<stream, fd, pos, playing, lastSample, dataCount, hw, I, hist>>

loop == Loop203 \/ Loop204 \/ Loop207 \/ Loop208 \/ Loop209 \/ Loop212

\* a mainline caller of stopPlayback (the external stop), issued from the
\* polling loop
ExtStop ==
    /\ pc["main"] = "l207" /\ Runs("main")
    /\ extStops < MaxStops
    /\ extStops' = extStops + 1
    /\ stopCalls' = stopCalls + 1
    /\ extStopPlaying' = (extStopPlaying \/ playing)
    /\ Goto("main", "x125")
    /\ UNCHANGED <<stream, fd, prog, hw, I, ticks, playTicks, fadeTicks,
                   exhaustedAt, stopDone, log>>

\* ------------------------------------------------------------ findData
\* the file bytes findData tells apart: 'd', 'a', 't' and any other byte
FileBytes == {Ch_d, Ch_a, Ch_t, Ch_x}

RECURSIVE FilesUpTo(_)
FilesUpTo(n) ==
    IF n = 0 THEN {<<>>}
    ELSE LET S == FilesUpTo(n - 1)
         IN  S \cup {Append(s, c) : s \in {t \in S : Len(t) = n - 1}, c \in FileBytes}

Files == FilesUpTo(MaxFile)

\* lines 109-113: the matcher's next state on byte c; a byte that fits no
\* branch leaves the state as it is
FindStep(state, c) ==
    IF state > 3 THEN state + 1
    ELSE IF state = 0 /\ c = Ch_d THEN 1
    ELSE IF state = 1 /\ c = Ch_a THEN 2
    ELSE IF state = 2 /\ c = Ch_t THEN 3
    ELSE IF state = 3 /\ c = Ch_a THEN 4
    ELSE state

\* lines 104-105: if (myFile) { state = 0;
Find104 ==
    /\ fd.pc = "f104"
    /\ fd' = IF fd.opened THEN [fd EXCEPT !.state = 0, !.pc = "f106"]
                          ELSE [fd EXCEPT !.pc = "f120"]
    /\ UNCHANGED <<stream, prog, hw, I, pc, hist>>

\* lines 106-114: one pass of while (myFile.available() and state < 8)
Find106 ==
    /\ fd.pc = "f106"
    /\ fd' = IF fd.fpos < Len(fd.file) /\ fd.state < FoundState
             THEN [fd EXCEPT !.count = fd.count + 1,
                             !.fpos = fd.fpos + 1,
                             !.state = FindStep(fd.state, fd.file[fd.fpos + 1])]
             ELSE [fd EXCEPT !.pc = "f115"]
    /\ UNCHANGED <<stream, prog, hw, I, pc, hist>>

\* lines 115-118: if (state == 8) report "found start of audio data"
Find115 ==
    /\ fd.pc = "f115"
    /\ fd' = [fd EXCEPT !.reported = (fd.state = FoundState), !.pc = "ret"]
    /\ UNCHANGED <<stream, prog, hw, I, pc, hist>>

\* line 120: "error opening audio1.wav"
Find120 ==
    /\ fd.pc = "f120"
    /\ fd' = [fd EXCEPT !.pc = "ret"]
    /\ UNCHANGED <<stream, prog, hw, I, pc, hist>>

findData == Find104 \/ Find106 \/ Find115 \/ Find120

\* a findData call on any file of at most MaxFile bytes, or on a file that
\* failed to open
InitFind ==
    /\ InitWith({<<>>})
    /\ \/ \E f \in Files : fd = FindEntry(f, TRUE)
       \/ fd = FindEntry(<<>>, FALSE)

\* ------------------------------------------------------- specifications
\* the program as written: setup, loop and the interrupt handler
Next ==
    \/ Setup
    \/ startPlayback
    \/ nextByte("main")
    \/ ISR
    \/ nextByte("isr")
    \/ stopPlayback("isr")
    \/ loop

Spec == Init /\ [][Next]_vars

\* the steps of the interrupt context and of the mainline
IsrSteps == ISR \/ nextByte("isr") \/ stopPlayback("isr")
MainSteps == Setup \/ startPlayback \/ nextByte("main") \/ loop

\* the program as written under its scheduling: while enabled, Timer 1 keeps
\* raising compare matches and the handler runs to completion; the
\* mainline keeps executing whenever no handler is active
FairSpec == Spec /\ WF_vars(IsrSteps) /\ WF_vars(MainSteps)

\* the program with a mainline that may also call stopPlayback
NextStop ==
    \/ Next
    \/ ExtStop
    \/ stopPlayback("main")

SpecStop == Init /\ [][NextStop]_vars

\* the program as written, playing a file whose only sample is any byte
SpecBytes == InitBytes /\ [][Next]_vars

\* one call of findData, from entry to return
SpecFind == InitFind /\ [][findData]_vars

\* ------------------------------------------------ vocabulary of the claims
N == Len(stream)

\* the last sample of the stream (0 for the empty stream): where fade-out starts
FadeStart == IF N = 0 THEN 0 ELSE stream[N]

StartPCs == {"setup", "s143", "s145", "s146", "s147", "s150", "s151", "s152",
             "s153", "s155", "s159", "s160", "s163", "s168", "s171", "s172",
             "s173", "n90", "n91", "n92", "n93", "n95", "n97"}
StopPCs == {"x125", "x126", "x127", "x128"}

\* startPlayback has returned to the mainline
StartReturned == pc["main"] \notin StartPCs

\* the state right after startPlayback returns: no handler has run yet
AtStartReturn == pc["main"] = "l203" /\ once /\ ticks = 0

BothOn == Timer1Running /\ SampleIrqEnabled /\ Timer2Running
BothOff == ~Timer1Running /\ ~SampleIrqEnabled /\ ~Timer2Running

\* the engine state as the handler's branches read it
EngineNotIdle == playing \/ (exhaustedAt # 0 /\ lastSample > 0)

\* ------------------------------------------------------------------- C1
\* C1 as stated: playing is true from the end of startPlayback until the
\* tick that calls stopPlayback (Playing and FadingOut), false only in Idle.
C1_PlayingUntilStop ==
    (StartReturned /\ stopCalls = 0) => playing

\* C1 amended: after startPlayback has returned, playing is true exactly
\* until the tick that finds the byte source exhausted; it is false during
\* the whole fade-out as well as after it.
C1_PlayingUntilExhausted ==
    StartReturned => (playing <=> exhaustedAt = 0)

C1_FadingNotPlaying ==
    /\ StartReturned /\ ~playing /\ stopCalls = 0
    /\ fadeTicks > 0 /\ lastSample > 0 /\ BothOn

\* ------------------------------------------------------------------- C2
\* C2 as stated: right after startPlayback returns, playing is true iff the
\* fetch inside startPlayback got a sample.
C2_PlayingIffSample ==
    AtStartReturn => (playing <=> dataCount >= 1)

\* C2 amended: right after startPlayback returns, playing is true whether
\* or not the fetch inside startPlayback got a sample.
C2_PlayingAfterStart ==
    AtStartReturn => playing

C2_EmptyStartReturned ==
    AtStartReturn /\ N = 0 /\ dataCount = 0 /\ playing

\* ------------------------------------------------------------------- C3
\* C3 as stated: once a mainline stopPlayback call made while playing (no
\* tick has found the source exhausted) has returned, playing is false, the compare interrupt and both timers are
\* disabled and the pin is low.
C3_StopWhilePlayingIdles ==
    (extStopPlaying /\ exhaustedAt = 0 /\ pc["main"] \notin StopPCs)
        => (~playing /\ BothOff /\ PinLow)

\* ------------------------------------------------------------------- C4
\* C4 as stated: at every statement boundary, engine not Idle implies both
\* timers (and the compare interrupt) enabled, and engine Idle implies both
\* disabled and the pin low.
C4_ClocksFollowState ==
    /\ EngineNotIdle => BothOn
    /\ ~EngineNotIdle => (BothOff /\ PinLow)

\* C4 amended: from the return of startPlayback until stopPlayback is first
\* entered both timers and the compare interrupt are enabled, and once a run
\* of stopPlayback has completed both are disabled and the pin is low.
C4_ClocksBetweenStartAndStop ==
    /\ (StartReturned /\ stopCalls = 0) => BothOn
    /\ stopDone >= 1 => (BothOff /\ PinLow)

C4_StoppedAfterFade ==
    stopDone >= 1 /\ fadeTicks > 0 /\ extStops = 0 /\ BothOff /\ PinLow

\* ------------------------------------------------------------------- C5
\* C5 as stated: for N >= 1 there are exactly N ticks handled while playing
\* and the tick after the Nth of them (tick N + 1) makes the transition to
\* fade-out.
C5_FadeOnTickAfterNth ==
    (N >= 1 /\ exhaustedAt # 0) => (playTicks = N /\ exhaustedAt = N + 1)

\* C5 amended: for N >= 1 there are exactly N ticks handled while playing,
\* and the Nth of them is itself the tick that finds the source exhausted
\* and makes the transition (startPlayback fetched the first sample).
C5_FadeOnNthTick ==
    N >= 1 => /\ playTicks <= N
              /\ exhaustedAt # 0 => (playTicks = N /\ exhaustedAt = N)

C5_TwoSamplesPlayed ==
    N = 2 /\ exhaustedAt = 2 /\ playTicks = 2 /\ stopDone = 1

\* ------------------------------------------------------------------- C6
\* C6: for every starting value in 0..255, during fade-out lastSample only
\* goes down, one per fade tick, stays within 0..255, takes at most 255 fade
\* ticks, and is exactly 0 when the handler turns to stopPlayback.
C6_FadeDecay ==
    exhaustedAt # 0 =>
        /\ lastSample \in Byte
        /\ fadeTicks <= 255
        /\ lastSample = FadeStart - fadeTicks
        /\ stopCalls >= 1 => lastSample = 0

C6_FullFade ==
    FadeStart = 255 /\ fadeTicks = 255 /\ lastSample = 0 /\ stopDone = 1

\* ------------------------------------------------------------------- C7
\* C7 as stated: the k-th fade tick writes v - k to the duty register (v the
\* last sample), so the duty values of the fade are v-1, ..., 0 and the last
\* one written before Idle is 0.
C7_FadeDuties ==
    (N >= 1 /\ fadeTicks >= 1) => OCR = FadeStart - fadeTicks

\* ------------------------------------------------------------------- C8
\* C8 as stated: for the empty stream lastSample stays 0, there is no decay
\* tick, and no nonzero value is ever written to the duty register.
C8_EmptyWritesNoDuty ==
    N = 0 => (OCR = 0 /\ lastSample = 0 /\ fadeTicks = 0)

\* ------------------------------------------------------------------- C9
\* C9: once a run of stopPlayback has completed, both timers and the compare
\* interrupt are disabled and the pin is low, and nothing that follows, a
\* further run of stopPlayback included, changes the timer enables, the
\* interrupt enable, the pin level, playing or lastSample.
C9_StopIdempotent ==
    /\ [](stopDone >= 1 => (BothOff /\ PinLow))
    /\ [][stopDone >= 1 =>
            UNCHANGED <<TIMSK1, TCCR1B, TCCR2B, TCCR2A, portBit, playing,
                        lastSample>>]_vars

C9_SecondStopRan ==
    stopDone >= 2 /\ extStops >= 1 /\ BothOff /\ PinLow

\* ------------------------------------------------------------------ C10
\* C10 as stated: on the tick that finds the source exhausted, the duty
\* register and lastSample are left as they were.
C10_ExhaustedTickWritesNothing ==
    [][pc["isr"] \in {"n95", "n97"} =>
            (OCR' = OCR /\ lastSample' = lastSample)]_vars

\* ------------------------------------------------------------------ C11
\* C11 as stated: whenever a tick handler has completed and the engine has
\* not yet turned to stopPlayback (Playing or FadingOut), the duty register
\* equals lastSample.
C11_DutyIsLastSample ==
    (ticks >= 1 /\ pc["isr"] = "idle" /\ stopCalls = 0) => OCR = lastSample

\* ------------------------------------------------------------------ C12
\* C12: the samples are consumed in stream order, none skipped and none read
\* twice: the k-th successful fetch (dataCount = k) has read the k-th byte
\* of the stream, stored it in lastSample and written it to the duty
\* register.
C12_SamplesInOrder ==
    /\ pos <= N
    /\ (pc["main"] # "n92" /\ pc["isr"] # "n92") => dataCount = pos
    /\ (pos >= 1 /\ fadeTicks = 0) => lastSample = stream[pos]
    /\ (/\ pos >= 1 /\ exhaustedAt = 0
        /\ pc["main"] \notin {"n92", "n93"}
        /\ pc["isr"] \notin {"n92", "n93"}) => OCR = stream[pos]

C12_SecondSampleFetched ==
    /\ N = 2 /\ stream[1] # stream[2]
    /\ pc["isr"] = "reti" /\ ticks = 1 /\ dataCount = 2
    /\ lastSample = stream[2] /\ OCR = stream[2]

\* ------------------------------------------------------------------ C13
\* C13 as stated: the duty register is changed only by steps of the
\* interrupt handler, never by a step of the mainline.
C13_OnlyIsrWritesDuty ==
    [][OCR' # OCR => pc["isr"] # "idle"]_vars

\* C13 amended: the duty register is changed by the interrupt handler and,
\* once, by the fetch of startPlayback (line 153), which runs before the
\* compare interrupt is enabled; no other mainline code (the rest of
\* startPlayback, stopPlayback, setup, loop) changes it.
C13_IsrOrStartFetchWritesDuty ==
    [][OCR' # OCR =>
          \/ pc["isr"] # "idle"
          \/ /\ pc["main"] \in {"n93", "n97"}
             /\ ~SampleIrqEnabled /\ ticks = 0]_vars

C13_StartWroteDuty ==
    pc["main"] = "s155" /\ N >= 1 /\ OCR = stream[1] /\ OCR > 0 /\ ticks = 0

\* ------------------------------------------------------------------ C14
\* C14: from the first Timer 1 register write of startPlayback (line 159) up
\* to its sei (line 173) interrupts are masked and no tick handler is
\* active, so no handler runs on a half-configured Timer 1 or with the
\* compare interrupt enabled and playing still false.
Timer1ConfigPCs == {"s159", "s160", "s163", "s168", "s171", "s172", "s173"}

C14_NoTickDuringTimer1Setup ==
    /\ pc["main"] \in Timer1ConfigPCs => (~I /\ pc["isr"] = "idle" /\ ticks = 0)
    /\ pc["isr"] # "idle" => (StartReturned /\ OCR1A = F_CPU \div SAMPLE_RATE)

C14_MaskedWithIrqEnabled ==
    /\ pc["main"] = "s172" /\ Timer1Running /\ SampleIrqEnabled
    /\ ~I /\ ~playing /\ pc["isr"] = "idle"

\* ------------------------------------------------------------------ C15
FetchPCs == {"n90", "n91", "n92", "n93", "n95", "n97"}

\* C15 as stated: from the moment the compare interrupt is enabled
\* (OCIE1A set, line 171) every change of playing, lastSample and the
\* cursor is made by a step of the interrupt handler.
C15_OnlyIsrWritesOnceEnabled ==
    [][(SampleIrqEnabled /\ <<playing, lastSample, pos>>' # <<playing, lastSample, pos>>)
          => pc["isr"] # "idle"]_vars

\* C15 amended: from the moment startPlayback unmasks interrupts (sei, line
\* 173) every change of playing, lastSample and the cursor is made by a step
\* of the interrupt handler; the one mainline write after OCIE1A is set,
\* playing = true (line 172), is made with interrupts masked.  The mainline
\* fetch of startPlayback runs with the compare interrupt disabled and no
\* handler active, so no handler's nextByte preempts it.
C15_OnlyIsrWritesOnceUnmasked ==
    /\ [][(StartReturned /\ <<playing, lastSample, pos>>' # <<playing, lastSample, pos>>)
            => pc["isr"] # "idle"]_vars
    /\ [][(SampleIrqEnabled /\ pc["isr"] = "idle"
             /\ <<playing, lastSample, pos>>' # <<playing, lastSample, pos>>)
            => (~I /\ pc["main"] = "s172")]_vars
    /\ [](pc["main"] \in FetchPCs
            => (~SampleIrqEnabled /\ pc["isr"] = "idle" /\ ticks = 0))

C15_MainFetchThenIsrFetch ==
    /\ pc["isr"] = "n91" /\ StartReturned /\ pos = 1 /\ N = 2
    /\ lastSample = stream[1]

\* ------------------------------------------------------------------ C16
\* C16: the tick that takes the handler's Idle branch changes none of
\* playing, lastSample and the duty register, and once it has called
\* stopPlayback no further tick handler is entered and none of the three
\* changes again.
C16_IdleIsFinal ==
    [][(pc["isr"] = "i138" \/ stopCalls >= 1)
          => (ticks' = ticks /\ UNCHANGED <<playing, lastSample, OCR>>)]_vars

C16_FinishedAfterIdle ==
    /\ stopDone = 1 /\ fadeTicks > 0 /\ pc["isr"] = "idle"
    /\ pc["main"] = "l203" /\ ~once /\ BothOff

\* ------------------------------------------------------------------ C17
\* loop has printed message e
Logged(e) == \E i \in 1 .. Len(log) : log[i] = e

\* C17 as stated: once "finished" has been printed the engine is Idle:
\* stopPlayback has run, lastSample is 0 and the timers are disabled.
C17_FinishedOnlyWhenIdle ==
    Logged("finished") => (stopDone >= 1 /\ lastSample = 0 /\ BothOff)

\* C17 amended: once "finished" has been printed a tick has found the byte
\* source exhausted (every sample was fetched, playing is false), and
\* "started" was printed before; the fade-out may still be running.
C17_FinishedOnlyWhenExhausted ==
    Logged("finished") =>
        /\ exhaustedAt # 0 /\ ~playing /\ pos = N
        /\ log = <<"started", "finished">>

C17_FinishedDuringFade ==
    Logged("finished") /\ lastSample > 0 /\ BothOn /\ stopCalls = 0

\* ------------------------------------------------------------------ C18
\* C18: for every stream of length N, with the sample clock firing while it
\* is enabled, at most N + 255 + 1 ticks are handled, the engine ends in
\* Idle with the interrupt and both timers disabled and the pin low, and
\* the mainline leaves its polling loop and prints "finished".
C18_PlaybackTerminates ==
    /\ [](ticks <= N + 255 + 1)
    /\ <>[](stopDone >= 1 /\ BothOff /\ PinLow /\ pc["isr"] = "idle")
    /\ <>[](Logged("finished") /\ pc["main"] = "l203" /\ ~once)

C18_LongestPlayback ==
    /\ N = 2 /\ ticks = N + 255 + 1 /\ stopDone = 1 /\ BothOff
    /\ Logged("finished") /\ pc["main"] = "l203" /\ ~once

\* ------------------------------------------------------------------- C19
\* the marker 'd','a','t','a' stands contiguously at bytes i .. i+3 of f
MarkerAt(f, i) ==
    /\ i + 3 <= Len(f)
    /\ f[i] = Ch_d /\ f[i + 1] = Ch_a /\ f[i + 2] = Ch_t /\ f[i + 3] = Ch_a

HasMarker(f) == \E i \in 1 .. Len(f) : MarkerAt(f, i)

\* offset (from 0) of the first contiguous occurrence of the marker in f
FirstMarker(f) ==
    (CHOOSE i \in 1 .. Len(f) :
        MarkerAt(f, i) /\ \A j \in 1 .. i - 1 : ~MarkerAt(f, j)) - 1

\* C19: findData reports the start of audio data (state 8) only when the
\* file holds 'd','a','t','a' contiguously, and then count and the read
\* cursor are the offset of the first such occurrence + 8.
\* The code keeps the matcher state across a byte that breaks a partial
\* match, so 'd','x','a','t','a' followed by four bytes is reported.
C19_ReportsOnlyContiguousMarker ==
    fd.reported =>
        /\ HasMarker(fd.file)
        /\ fd.count = FirstMarker(fd.file) + FoundState
        /\ fd.fpos = fd.count

====
